---- MODULE Spec2Model ----
(***************************************************************************)
(* Model of security/guardduty/index.py: the custom-resource handler that  *)
(* enables GuardDuty across the regions of an organization.                *)
(*                                                                         *)
(* Strings that the code builds or takes apart (bucket names, ARNs) are    *)
(* tuples of tokens; the empty string '' is the empty tuple <<>>.          *)
(* Every boundary API call (boto3 / urllib3) has its outcome chosen with   *)
(* \E by the action that makes the call.                                   *)
(***************************************************************************)
EXTENDS Integers, Sequences, FiniteSets, TLC

\* ---- bounds of the model ----
MaxRegions == 2      \* length of the list get_available_regions returns
MaxAccounts == 2     \* length of the listing list_accounts returns

\* ---- configuration and literals of the program ----
gdmaster_account_number == "111111111111"
role_to_assume == "AWSControlTowerExecution"
responseValue == 120
key_alias == "alias/controltower/guardduty"
allowed_regions ==
    { "eu-west-1", "us-west-1", "us-west-2", "ap-south-1", "ap-southeast-1",
      "ap-southeast-2", "ap-northeast-1", "sa-east-1", "cn-north-1",
      "eu-central-1" }

\* ---- the environment the calls are made against ----
\* Region names in the order the SDK lists them for the service.
AvailableRegions == <<"us-east-1", "eu-west-3", "ap-south-1", "us-west-2">>
RegionNames == { AvailableRegions[i] : i \in DOMAIN AvailableRegions }
Min(a, b) == IF a < b THEN a ELSE b

\* Home regions an audit trail is described with: one outside both cases,
\* one in allowed_regions, one that only starts with 'eu'.
HomeRegions == { "us-east-1", "ap-south-1", "eu-west-3" }
\* Regions in which a key can live.
KmsRegions == HomeRegions \cup { "eu-west-1" }
\* Regions in which the alias may exist before the run.
ExistingKeyRegions == { "us-east-1", "eu-west-3" }
\* bucket_region.startswith('eu') over the region names of the model.
StartsWithEu(r) == r \in { "eu-west-1", "eu-west-3", "eu-central-1" }

\* Bucket names of the audit trail, split at '-'.
TrailBucketNames ==
    { <<"aws", "controltower", "logs", "999999999999", "us", "east", "1">>,
      <<"org", "logs">> }

\* The accounts of the organization, in the order list_accounts lists them.
AccountIds == <<"222222222222", gdmaster_account_number, "333333333333">>
Account(id) == [Id |-> id, Email |-> <<id, "@example.com">>]
\* Listings of the organization: any of the accounts, each once, in that
\* order.
AccountListings ==
    { s \in UNION { [1..n -> DOMAIN AccountIds] : n \in 0..MaxAccounts } :
        \A i, j \in DOMAIN s : i < j => s[i] < s[j] }
ListingOf(s) == [i \in DOMAIN s |-> Account(AccountIds[s[i]])]

DetectorLists == { <<>>, <<"det-1">> }

event == [ResponseURL |-> "https://cfn.example/response", StackId |-> "stack-1",
          RequestId |-> "req-1", LogicalResourceId |-> "GuardDutyEnabler"]
context == [log_stream_name |-> "log-stream-1"]

ExistingKeyArn(r) == <<"arn:aws:kms", r, "key/existing">>
NewKeyArn(r) == <<"arn:aws:kms", r, "key/new">>
NoAlias == [r \in KmsRegions |-> <<>>]

\* One boundary call (or function entry) as it is recorded in a call log.
\* arg is what the call was given; for list_detectors and list_accounts,
\* which are given nothing, it is the list they returned.
Call(api, region, arg, err) ==
    [api |-> api, region |-> region, arg |-> arg, err |-> err]

EmptyDict == [k \in {} |-> <<>>]
Range(s) == { s[i] : i \in DOMAIN s }

VARIABLES
    pc,                  \* position in the module / handler
    abortCause,          \* the call whose exception left the handler
    failed_regions,      \* module global, a list
    failed_members,      \* module global, a dict
    guardduty_regions,   \* handler local
    gdmaster_account_session,
    bucket_arn,          \* handler local: the destination properties
    idx,                 \* position of the for loop in guardduty_regions
    kms_alias,           \* KMS: the key the alias points to, per region
    trail,               \* the trail describe_trails returned
    destCalls,           \* calls made by create_s3_destination
    calls,               \* calls made by the current loop iteration
    masterCount,         \* invocations of enable_gd_master per region
    memberCount,         \* invocations of enable_gd_member per region
    masterFailed,        \* regions whose designation call raised
    memberRaised,        \* regions whose enable_gd_member call raised
    cfn_calls,           \* invocations of cfnresponse
    end_log              \* what the handler logs after the callback

vars == <<pc, abortCause, failed_regions, failed_members, guardduty_regions,
          gdmaster_account_session, bucket_arn, idx, kms_alias, trail,
          destCalls, calls, masterCount, memberCount, masterFailed,
          memberRaised, cfn_calls, end_log>>

NoTrail == [S3BucketName |-> <<>>, S3KeyPrefix |-> <<>>, HomeRegion |-> ""]
NoProperties == [DestinationArn |-> <<>>, KmsKeyArn |-> <<>>]

Init ==
    /\ pc = "load"
    /\ abortCause = "none"
    /\ failed_regions = <<>>
    /\ failed_members = EmptyDict
    /\ guardduty_regions = <<>>
    /\ gdmaster_account_session = "none"
    /\ bucket_arn = NoProperties
    /\ idx = 0
    /\ kms_alias \in { NoAlias } \cup
          { [NoAlias EXCEPT ![r] = ExistingKeyArn(r)] : r \in ExistingKeyRegions }
    /\ trail = NoTrail
    /\ destCalls = <<>>
    /\ calls = <<>>
    /\ masterCount = [r \in RegionNames |-> 0]
    /\ memberCount = [r \in RegionNames |-> 0]
    /\ masterFailed = {}
    /\ memberRaised = {}
    /\ cfn_calls = <<>>
    /\ end_log = <<>>

\* ---- module load: os.environ[...] raises KeyError when a name is unset ----
Load ==
    /\ pc = "load"
    /\ \E configured \in BOOLEAN :
         IF configured
         THEN pc' = "start" /\ abortCause' = abortCause
         ELSE pc' = "aborted" /\ abortCause' = "config"
    /\ UNCHANGED <<failed_regions, failed_members, guardduty_regions,
                   gdmaster_account_session, bucket_arn, idx, kms_alias, trail,
                   destCalls, calls, masterCount, memberCount, masterFailed,
                   memberRaised, cfn_calls, end_log>>

\* ---- assume_role: any failure of the STS calls propagates ----
assume_role(aws_account_number, role_name, ok) ==
    IF ok
    THEN [raised |-> "none", session |-> aws_account_number]
    ELSE [raised |-> "ClientError", session |-> "none"]

get_available_regions(n) == SubSeq(AvailableRegions, 1, n)

\* handler, lines 48-52
HandlerStart ==
    /\ pc = "start"
    /\ \E n \in 0..Min(MaxRegions, Len(AvailableRegions)), ok \in BOOLEAN :
         LET s == assume_role(gdmaster_account_number, role_to_assume, ok) IN
         /\ guardduty_regions' = get_available_regions(n)
         /\ gdmaster_account_session' = s.session
         /\ IF s.raised = "none"
            THEN pc' = "dest" /\ abortCause' = abortCause
            ELSE pc' = "aborted" /\ abortCause' = "assume_role"
    /\ UNCHANGED <<failed_regions, failed_members, bucket_arn, idx, kms_alias,
                   trail, destCalls, calls, masterCount, memberCount,
                   masterFailed, memberRaised, cfn_calls, end_log>>

\* ---- create_kms_key ----
\* describe_key answers where the alias exists and raises where it does
\* not. o.create_key_ok, o.create_alias_ok: the creation calls succeed.
create_kms_key(alias, region, o) ==
    LET found == alias[region] # <<>>
        describe == Call("describe_key", region, key_alias,
                         IF found THEN "none" ELSE "Exception")
    IN  IF found
        THEN [calls |-> <<describe>>, raised |-> "none",
              arn |-> alias[region], kms_alias |-> alias]
        ELSE IF ~o.create_key_ok
        THEN [calls |-> <<describe,
                          Call("create_key", region, <<>>, "ClientError")>>,
              raised |-> "ClientError", arn |-> <<>>, kms_alias |-> alias]
        ELSE IF ~o.create_alias_ok
        THEN [calls |-> <<describe,
                          Call("create_key", region, <<>>, "none"),
                          Call("create_alias", region, key_alias, "ClientError")>>,
              raised |-> "ClientError", arn |-> <<>>, kms_alias |-> alias]
        ELSE [calls |-> <<describe,
                          Call("create_key", region, <<>>, "none"),
                          Call("create_alias", region, key_alias, "none")>>,
              raised |-> "none", arn |-> NewKeyArn(region),
              kms_alias |-> [alias EXCEPT ![region] = NewKeyArn(region)]]

\* ---- create_s3_destination ----
\* trail_bucket_name.replace('logs', 'guardduty'), on the tokens of the name
replace_logs(name) ==
    [i \in DOMAIN name |-> IF name[i] = "logs" THEN "guardduty" ELSE name[i]]

\* The LocationConstraint create_bucket is called with ("" when none is).
LocationConstraint(bucket_region) ==
    IF bucket_region \in allowed_regions THEN bucket_region
    ELSE IF StartsWithEu(bucket_region) THEN "EU"
    ELSE ""

\* The region create_kms_key is called with.
KmsKeyRegion(bucket_region) ==
    IF bucket_region \in allowed_regions THEN bucket_region
    ELSE IF StartsWithEu(bucket_region) THEN bucket_region
    ELSE "us-east-1"

\* The region S3 puts a bucket in: 'EU' is eu-west-1, no constraint is
\* us-east-1.
BucketRegionOf(constraint) ==
    IF constraint = "EU" THEN "eu-west-1"
    ELSE IF constraint = "" THEN "us-east-1"
    ELSE constraint

\* Variant: the exception of bucket or key creation is not caught.
bucket_key_reraise(exc) == exc

\* What the 'except Exception' around bucket and key creation lets out.
bucket_key_except(exc) == "none"

\* Lines 404-428: create the bucket, then the key, inside one try.
create_bucket_and_key(alias, bucket_name, bucket_region, o) ==
    LET constraint == LocationConstraint(bucket_region)
        bucket == Call("create_bucket", BucketRegionOf(constraint), constraint,
                       IF o.bucket_ok THEN "none" ELSE "ClientError")
        k == create_kms_key(alias, KmsKeyRegion(bucket_region), o)
    IN  IF ~o.bucket_ok
        THEN [calls |-> <<bucket>>, kms_key_arn |-> <<>>, kms_alias |-> alias,
              raised |-> bucket_key_except("create_bucket")]
        ELSE IF k.raised # "none"
        THEN [calls |-> <<bucket>> \o k.calls, kms_key_arn |-> <<>>,
              kms_alias |-> k.kms_alias,
              raised |-> bucket_key_except("create_kms_key")]
        ELSE [calls |-> <<bucket>> \o k.calls, kms_key_arn |-> k.arn,
              kms_alias |-> k.kms_alias, raised |-> "none"]

DenySids == { "Deny unencrypted object uploads. This is optional",
              "Deny incorrect encryption header. This is optional",
              "Deny non-HTTPS access" }

BucketPolicy(bucket_name, kms_key_arn) ==
    [Resource |-> <<"arn:aws:s3:::">> \o bucket_name,
     KmsKeyId |-> kms_key_arn, Deny |-> DenySids]

\* o.trails_ok: describe_trails answers; o.trailList: the trailList it answers.
create_s3_destination(alias, o) ==
    LET fail(cause, cs, t, a) ==
            [raised |-> cause, calls |-> cs, trail |-> t, kms_alias |-> a,
             properties |-> NoProperties]
        describe(err) == Call("describe_trails", "", <<>>, err)
    IN
    IF ~o.trails_ok
    THEN fail("describe_trails", <<describe("ClientError")>>, NoTrail, alias)
    ELSE IF Len(o.trailList) = 0 \/ Len(o.trailList[1].S3BucketName) < 4
    THEN fail("read_trail", <<describe("none")>>,
              IF Len(o.trailList) = 0 THEN NoTrail ELSE o.trailList[1], alias)
    ELSE
    LET t == o.trailList[1]
        bucket_name == replace_logs(t.S3BucketName)
        bucket_region == t.HomeRegion
        bucket_account == t.S3BucketName[4]
        log_account_session == assume_role(bucket_account, role_to_assume,
                                           o.assume_ok)
        c1 == <<describe("none"),
                Call("assume_role", "", bucket_account,
                     log_account_session.raised)>>
    IN
    IF log_account_session.raised # "none"
    THEN fail("assume_role", c1, t, alias)
    ELSE
    LET p == create_bucket_and_key(alias, bucket_name, bucket_region, o)
        c2 == c1 \o p.calls
        policy == BucketPolicy(bucket_name, p.kms_key_arn)
        c3 == Append(c2, Call("put_bucket_policy", "", policy,
                              IF o.policy_ok THEN "none" ELSE "ClientError"))
        c4 == Append(c3, Call("put_bucket_encryption", "", "AES256",
                              IF o.enc_ok THEN "none" ELSE "ClientError"))
    IN
    IF p.raised # "none" THEN fail(p.raised, c2, t, p.kms_alias)
    ELSE IF ~o.policy_ok THEN fail("put_bucket_policy", c3, t, p.kms_alias)
    ELSE IF ~o.enc_ok THEN fail("put_bucket_encryption", c4, t, p.kms_alias)
    ELSE [raised |-> "none", calls |-> c4, trail |-> t,
          kms_alias |-> p.kms_alias,
          properties |-> [DestinationArn |-> <<"arn:aws:s3:::">> \o bucket_name,
                          KmsKeyArn |-> p.kms_key_arn]]

Trails ==
    [S3BucketName : TrailBucketNames, S3KeyPrefix : {<<"o-org">>},
     HomeRegion : HomeRegions]

\* The outcomes of the calls of create_s3_destination. A call that is not
\* reached has no outcome: its field is left at one fixed value.
DestinationOutcomes ==
    { o \in [trails_ok : BOOLEAN,
             trailList : {<<>>} \cup { <<t>> : t \in Trails },
             assume_ok : BOOLEAN, bucket_ok : BOOLEAN,
             create_key_ok : BOOLEAN, create_alias_ok : BOOLEAN,
             policy_ok : BOOLEAN, enc_ok : BOOLEAN] :
        LET read == o.trails_ok /\ Len(o.trailList) > 0
                    /\ Len(o.trailList[1].S3BucketName) >= 4
            reached_bucket == read /\ o.assume_ok
            reached_policy == reached_bucket
        IN  /\ ~o.trails_ok => o.trailList = <<>>
            /\ ~read => o.assume_ok
            /\ ~reached_bucket => o.bucket_ok
            /\ ~(reached_bucket /\ o.bucket_ok) => o.create_key_ok
            /\ ~(reached_bucket /\ o.bucket_ok /\ o.create_key_ok) =>
                   o.create_alias_ok
            /\ ~reached_policy => o.policy_ok
            /\ ~(reached_policy /\ o.policy_ok) => o.enc_ok }

\* handler, line 53
CreateS3Destination ==
    /\ pc = "dest"
    /\ \E o \in DestinationOutcomes :
         LET d == create_s3_destination(kms_alias, o) IN
         /\ destCalls' = d.calls
         /\ trail' = d.trail
         /\ kms_alias' = d.kms_alias
         /\ bucket_arn' = d.properties
         /\ IF d.raised = "none"
            THEN pc' = "loop" /\ idx' = 1 /\ abortCause' = abortCause
            ELSE pc' = "aborted" /\ idx' = idx /\ abortCause' = d.raised
    /\ UNCHANGED <<failed_regions, failed_members, guardduty_regions,
                   gdmaster_account_session, calls, masterCount, memberCount,
                   masterFailed, memberRaised, cfn_calls, end_log>>

\* Variant of enable_gd_master without the try/except.
enable_gd_master_uncaught(fr, region, ok) ==
    [calls |-> <<Call("enable_gd_master", region, <<>>, "none"),
                 Call("enable_organization_admin_account", region,
                      gdmaster_account_number,
                      IF ok THEN "none" ELSE "Exception")>>,
     failed_regions |-> fr,
     raised |-> IF ok THEN "none" ELSE "Exception"]

\* ---- enable_gd_master ----
\* The designation call sits in try/except Exception: nothing is raised and
\* failed_regions is left as it is.
enable_gd_master(fr, region, ok) ==
    [calls |-> <<Call("enable_gd_master", region, <<>>, "none"),
                 Call("enable_organization_admin_account", region,
                      gdmaster_account_number,
                      IF ok THEN "none" ELSE "Exception")>>,
     failed_regions |-> fr,
     raised |-> "none"]

\* ---- disable_gd_master: defined by the module, called by nothing ----
disable_gd_master(fr, region, ok) ==
    [calls |-> <<Call("disable_gd_master", region, <<>>, "none"),
                 Call("disable_organization_admin_account", region,
                      gdmaster_account_number,
                      IF ok THEN "none" ELSE "Exception")>>,
     failed_regions |-> IF ok THEN fr ELSE Append(fr, region),
     raised |-> "none"]

\* ---- enable_gd_member ----
\* Variant: an empty list yields an empty id instead of IndexError.
first_detector_or_empty(ids) ==
    IF Len(ids) = 0
    THEN [raised |-> "none", id |-> ""]
    ELSE [raised |-> "none", id |-> ids[1]]

\* detector_ids['DetectorIds'][0]
first_detector(ids) ==
    IF Len(ids) = 0
    THEN [raised |-> "IndexError", id |-> ""]
    ELSE [raised |-> "none", id |-> ids[1]]

\* Variant: the roster of every listed account.
member_details_unfiltered(accounts) ==
    [i \in DOMAIN accounts |->
        [AccountId |-> accounts[i].Id, Email |-> accounts[i].Email]]

\* Lines 217-227: the roster of every listed account but the master.
member_details(accounts) ==
    LET keep(a) == a.Id # gdmaster_account_number
        F[i \in 0..Len(accounts)] ==
            IF i = 0 THEN <<>>
            ELSE IF keep(accounts[i])
                 THEN Append(F[i-1], [AccountId |-> accounts[i].Id,
                                      Email |-> accounts[i].Email])
                 ELSE F[i-1]
    IN  F[Len(accounts)]

\* Lines 241-243, the 'except ClientError' clause. 'account' is the
\* variable the roster loop left behind: unbound after an empty listing
\* (the f-string raises UnboundLocalError), and otherwise a dict, which
\* cannot be the key of {account: repr(e)} (TypeError). Nothing is appended.
except_ClientError(accounts, failed_accounts) ==
    [raised |-> IF Len(accounts) = 0 THEN "UnboundLocalError" ELSE "TypeError",
     failed_accounts |-> failed_accounts]

\* failed_members.update(region=failed_accounts): the keyword argument names
\* the key, so the key is the string 'region'.
dict_update(fm, region, failed_accounts) ==
    [k \in DOMAIN fm \cup {"region"} |->
        IF k = "region" THEN failed_accounts ELSE fm[k]]

Unprocessed(details) ==
    [i \in DOMAIN details |->
        [AccountId |-> details[i].AccountId, Result |-> "not processed"]]

\* o: the outcomes of the calls. list_ok, DetectorIds: list_detectors;
\* cpd_ok: create_publishing_destination; accounts_ok, listing:
\* list_accounts; cm: create_members ("none", "ClientError" or another
\* exception); unprocessed: it reports accounts as unprocessed; uoc:
\* update_organization_configuration.
enable_gd_member(fm, session, region, properties, o) ==
    LET ret(cs, m, exc) == [calls |-> cs, failed_members |-> m, raised |-> exc]
        c0 == <<Call("enable_gd_member", region, session, "none")>>
        c1 == Append(c0, Call("list_detectors", region,
                              IF o.list_ok THEN o.DetectorIds ELSE <<>>,
                              IF o.list_ok THEN "none" ELSE "Exception"))
    IN
    IF ~o.list_ok THEN ret(c1, fm, "none")
    ELSE
    LET d == first_detector(o.DetectorIds) IN
    IF d.raised # "none" THEN ret(c1, fm, d.raised)
    ELSE
    LET c2 == Append(c1, Call("create_publishing_destination", region,
                              [DetectorId |-> d.id, DestinationType |-> "S3",
                               DestinationProperties |-> properties,
                               ClientToken |-> d.id],
                              IF o.cpd_ok THEN "none" ELSE "ClientError"))
    IN
    IF ~o.cpd_ok THEN ret(c2, fm, "ClientError")
    ELSE
    LET c3 == Append(c2, Call("list_accounts", "",
                              IF o.accounts_ok THEN ListingOf(o.listing)
                              ELSE <<>>,
                              IF o.accounts_ok THEN "none" ELSE "ClientError"))
    IN
    IF ~o.accounts_ok THEN ret(c3, fm, "ClientError")
    ELSE
    LET accounts == ListingOf(o.listing)
        details == member_details(accounts)
        c4 == Append(c3, Call("create_members", region, details, o.cm))
        unprocessed_accounts ==
            IF o.unprocessed THEN Unprocessed(details) ELSE <<>>
        failed_accounts ==
            IF Len(unprocessed_accounts) > 0
            THEN <<unprocessed_accounts>> ELSE <<>>
        c5 == Append(c4, Call("update_organization_configuration", region,
                              d.id, o.uoc))
        finish(cs, fa) ==
            IF fa # <<>> THEN ret(cs, dict_update(fm, region, fa), "none")
            ELSE ret(cs, fm, "none")
    IN
    IF o.cm = "Exception" THEN ret(c4, fm, "Exception")
    ELSE IF o.cm = "ClientError"
    THEN LET x == except_ClientError(accounts, <<>>) IN
         IF x.raised # "none" THEN ret(c4, fm, x.raised)
         ELSE finish(c4, x.failed_accounts)
    ELSE IF o.uoc = "ClientError"
    THEN LET x == except_ClientError(accounts, failed_accounts) IN
         IF x.raised # "none" THEN ret(c5, fm, x.raised)
         ELSE finish(c5, x.failed_accounts)
    ELSE finish(c5, failed_accounts)

\* A call that is not reached has no outcome: its field is left at one
\* fixed value.
MemberOutcomes ==
    { o \in [list_ok : BOOLEAN, DetectorIds : DetectorLists,
             cpd_ok : BOOLEAN, accounts_ok : BOOLEAN,
             listing : AccountListings,
             cm : {"none", "ClientError", "Exception"},
             unprocessed : BOOLEAN, uoc : {"none", "ClientError"}] :
        LET reached_cpd == o.list_ok /\ Len(o.DetectorIds) > 0
            reached_accounts == reached_cpd /\ o.cpd_ok
            reached_cm == reached_accounts /\ o.accounts_ok
            reached_uoc == reached_cm /\ o.cm = "none"
        IN  /\ ~o.list_ok => o.DetectorIds = <<>>
            /\ ~reached_cpd => o.cpd_ok
            /\ ~reached_accounts => o.accounts_ok
            /\ ~(reached_accounts /\ o.accounts_ok) => o.listing = <<>>
            /\ ~reached_cm => o.cm = "none"
            /\ ~reached_uoc => ~o.unprocessed /\ o.uoc = "none" }

\* ---- the region loop of handler, lines 55-64 ----
\* Variant: the except clause ends the loop ('break' for 'continue').
region_loop_next_break(raised, i, n) ==
    IF raised # "none" THEN n + 1 ELSE i + 1

\* 'except Exception: ... continue': whatever was raised, the loop goes on
\* with the next region.
region_loop_next(raised, i, n) == i + 1

\* What the except clause of the loop adds to the call log.
handler_except(region, raised) ==
    IF raised = "none" THEN <<>>
    ELSE <<Call("except Exception", region, <<>>, raised)>>

EnableGdMaster ==
    /\ pc = "loop"
    /\ idx <= Len(guardduty_regions)
    /\ \E ok \in BOOLEAN :
         LET region == guardduty_regions[idx]
             m == enable_gd_master(failed_regions, region, ok)
         IN  /\ calls' = m.calls \o handler_except(region, m.raised)
             /\ failed_regions' = m.failed_regions
             /\ masterCount' = [masterCount EXCEPT ![region] = @ + 1]
             /\ masterFailed' =
                    IF ok THEN masterFailed ELSE masterFailed \cup {region}
             /\ IF m.raised = "none"
                THEN pc' = "member" /\ idx' = idx
                ELSE /\ pc' = "loop"
                     /\ idx' = region_loop_next(m.raised, idx,
                                                Len(guardduty_regions))
    /\ UNCHANGED <<abortCause, failed_members, guardduty_regions,
                   gdmaster_account_session, bucket_arn, kms_alias, trail,
                   destCalls, memberCount, memberRaised, cfn_calls, end_log>>

EnableGdMember ==
    /\ pc = "member"
    /\ \E o \in MemberOutcomes :
         LET region == guardduty_regions[idx]
             e == enable_gd_member(failed_members, gdmaster_account_session,
                                   region, bucket_arn, o)
         IN  /\ calls' = calls \o e.calls \o handler_except(region, e.raised)
             /\ memberRaised' = IF e.raised = "none" THEN memberRaised
                                ELSE memberRaised \cup {region}
             /\ failed_members' = e.failed_members
             /\ memberCount' = [memberCount EXCEPT ![region] = @ + 1]
             /\ idx' = region_loop_next(e.raised, idx, Len(guardduty_regions))
    /\ pc' = "loop"
    /\ UNCHANGED <<abortCause, failed_regions, guardduty_regions,
                   gdmaster_account_session, bucket_arn, kms_alias, trail,
                   destCalls, masterCount, masterFailed, cfn_calls, end_log>>

\* ---- cfnresponse ----
\* physicalResourceId = "" stands for None.
cfnresponse(ev, ctx, responseStatus, responseData, physicalResourceId, noEcho) ==
    LET ls == ctx.log_stream_name IN
    [Status |-> responseStatus,
     Reason |-> <<"See the details in CloudWatch Log Stream: ", ls>>,
     PhysicalResourceId |->
         IF physicalResourceId = "" THEN ls ELSE physicalResourceId,
     StackId |-> ev.StackId,
     RequestId |-> ev.RequestId,
     LogicalResourceId |-> ev.LogicalResourceId,
     NoEcho |-> noEcho,
     Data |-> responseData]

\* Variant: the status follows the recorded member failures.
handler_response_by_failures(fr, fm) ==
    [responseStatus |-> IF DOMAIN fm # {} THEN "FAILED" ELSE "SUCCESS",
     responseData |-> [Data |-> responseValue]]

\* handler, lines 66-69: the status and the data handed to cfnresponse
handler_response(fr, fm) ==
    [responseStatus |-> "SUCCESS", responseData |-> [Data |-> responseValue]]

\* The PUT may fail; cfnresponse logs that and returns.
Cfnresponse ==
    /\ pc = "loop"
    /\ idx > Len(guardduty_regions)
    /\ \E delivered \in BOOLEAN :
         LET r == handler_response(failed_regions, failed_members) IN
         cfn_calls' = Append(cfn_calls,
             [url |-> event.ResponseURL,
              body |-> cfnresponse(event, context, r.responseStatus,
                                   r.responseData, "", FALSE),
              delivered |-> delivered])
    /\ pc' = "log"
    /\ calls' = <<>>
    /\ UNCHANGED <<abortCause, failed_regions, failed_members,
                   guardduty_regions, gdmaster_account_session, bucket_arn,
                   idx, kms_alias, trail, destCalls, masterCount,
                   memberCount, masterFailed, memberRaised, end_log>>

\* handler, lines 71-77
LogFailures ==
    /\ pc = "log"
    /\ end_log' =
         (IF failed_regions # <<>>
          THEN <<[msg |-> "Failed to enable GuardDuty master: ",
                  regions |-> failed_regions]>>
          ELSE <<>>)
         \o
         (IF DOMAIN failed_members # {}
          THEN <<[msg |-> "Failed to enable GuardDuty members: ",
                  members |-> failed_members]>>
          ELSE <<>>)
    /\ pc' = "done"
    /\ UNCHANGED <<abortCause, failed_regions, failed_members,
                   guardduty_regions, gdmaster_account_session, bucket_arn,
                   idx, kms_alias, trail, destCalls, calls, masterCount,
                   memberCount, masterFailed, memberRaised, cfn_calls>>

Next ==
    \/ Load
    \/ HandlerStart
    \/ CreateS3Destination
    \/ EnableGdMaster
    \/ EnableGdMember
    \/ Cfnresponse
    \/ LogFailures

Spec == Init /\ [][Next]_vars

\* ---- helpers of the properties ----
LoopDone == pc \in {"log", "done"} \/ (pc = "loop" /\ idx > Len(guardduty_regions))
HasCall(cs, api) == \E i \in DOMAIN cs : cs[i].api = api
FailedCall(cs, api) == \E i \in DOMAIN cs : cs[i].api = api /\ cs[i].err # "none"
\* list_detectors answered, with an empty list
EmptyDetectorList(cs) ==
    \E i \in DOMAIN cs :
        cs[i].api = "list_detectors" /\ cs[i].err = "none" /\ Len(cs[i].arg) = 0

\* C1: once the region loop is over, enable_gd_master has been invoked
\* exactly once for every region of the list (and never for another one),
\* whichever regions saw the designation call fail or enable_gd_member
\* raise; while the loop runs, exactly the regions up to the current one
\* have been attempted, once each.
C1_MasterOncePerRegion ==
    /\ \A r \in RegionNames : masterCount[r] <= 1
    /\ LoopDone =>
         \A r \in RegionNames :
            masterCount[r] = IF r \in Range(guardduty_regions) THEN 1 ELSE 0
    /\ pc \in {"loop", "member"} =>
         \A k \in DOMAIN guardduty_regions :
            masterCount[guardduty_regions[k]] =
                IF k < idx \/ (k = idx /\ pc = "member") THEN 1 ELSE 0

\* A finished run in which the first region failed both in the designation
\* call and in enable_gd_member, and a later region was attempted.
C1_Witness ==
    /\ pc = "done"
    /\ Len(guardduty_regions) >= 2
    /\ guardduty_regions[1] \in masterFailed \cap memberRaised
    /\ masterCount[guardduty_regions[2]] = 1

\* C2: cfnresponse is never invoked before the region loop is over and
\* never twice; once the loop is over and the handler has gone on, it has
\* been invoked exactly once, with status SUCCESS and data {Data: 120},
\* whatever failed in the regions.
C2_CallbackOnceSuccess ==
    /\ Len(cfn_calls) <= 1
    /\ pc \in {"log", "done"} =>
         /\ Len(cfn_calls) = 1
         /\ cfn_calls[1].body.Status = "SUCCESS"
         /\ cfn_calls[1].body.Data = [Data |-> 120]
    /\ pc \notin {"log", "done"} => cfn_calls = <<>>

\* The callback was sent after a run with a failed designation call, a
\* raising enable_gd_member and a recorded member failure.
C2_Witness ==
    /\ pc = "done"
    /\ Len(cfn_calls) = 1
    /\ masterFailed # {}
    /\ memberRaised # {}
    /\ DOMAIN failed_members # {}

\* C3 (as claimed): after an iteration in which create_members raised a
\* ClientError, nothing was raised out of enable_gd_member and
\* failed_members has an entry whose key is that iteration's region.
C3_ClientErrorRecordedByRegion ==
    (pc = "loop" /\ \E i \in DOMAIN calls :
                       calls[i].api = "create_members"
                       /\ calls[i].err = "ClientError")
    => /\ ~HasCall(calls, "except Exception")
       /\ calls[1].region \in DOMAIN failed_members

\* C4 (as claimed): when create_s3_destination returns and the alias existed
\* in the region the key is looked up in, create_key and create_alias were
\* not called and KmsKeyArn is the ARN of the existing key.
C4_ExistingKeyReused ==
    (pc \in {"loop", "member", "log", "done"}
     /\ kms_alias[KmsKeyRegion(trail.HomeRegion)]
            = ExistingKeyArn(KmsKeyRegion(trail.HomeRegion)))
    => /\ ~HasCall(destCalls, "create_key")
       /\ ~HasCall(destCalls, "create_alias")
       /\ bucket_arn.KmsKeyArn = ExistingKeyArn(KmsKeyRegion(trail.HomeRegion))

\* C5: a call of enable_gd_member in which list_detectors answers an empty
\* list makes no create_publishing_destination, create_members or
\* update_organization_configuration call, leaves failed_members and
\* failed_regions as they were, and the loop goes on to the next region.
C5_EmptyDetectorsSkipped ==
    [][ (pc = "member" /\ EmptyDetectorList(calls'))
        => /\ ~HasCall(calls', "create_publishing_destination")
           /\ ~HasCall(calls', "create_members")
           /\ ~HasCall(calls', "update_organization_configuration")
           /\ failed_members' = failed_members
           /\ failed_regions' = failed_regions
           /\ pc' = "loop"
           /\ idx' = idx + 1 ]_vars

\* An iteration that found no detector has ended and a region is left.
C5_Witness ==
    /\ pc = "loop"
    /\ EmptyDetectorList(calls)
    /\ idx = 2
    /\ idx <= Len(guardduty_regions)

DestinationAbortCauses ==
    {"describe_trails", "read_trail", "put_bucket_policy",
     "put_bucket_encryption"}

C7_KeyAndBucketColocated ==
    \A i, j \in DOMAIN destCalls :
        (/\ destCalls[i].api = "create_bucket" /\ destCalls[i].err = "none"
         /\ destCalls[j].api = "create_key" /\ destCalls[j].err = "none")
        => destCalls[j].region = destCalls[i].region

\* C8: every roster handed to create_members has no entry for the master
\* account and exactly one entry, with id and email, for every other
\* account of the listing list_accounts answered; when exactly one of the N
\* listed accounts is the master, it has N-1 entries.
C8_RosterExcludesMaster ==
    \A i \in DOMAIN calls :
        calls[i].api = "create_members" =>
            LET listing == calls[i-1].arg
                roster == calls[i].arg
            IN  /\ calls[i-1].api = "list_accounts"
                /\ \A j \in DOMAIN roster :
                      roster[j].AccountId # gdmaster_account_number
                /\ \A k \in DOMAIN listing :
                      listing[k].Id # gdmaster_account_number =>
                         Cardinality({ j \in DOMAIN roster :
                             /\ roster[j].AccountId = listing[k].Id
                             /\ roster[j].Email = listing[k].Email }) = 1
                /\ Cardinality({ k \in DOMAIN listing :
                       listing[k].Id = gdmaster_account_number }) = 1
                   => Len(roster) = Len(listing) - 1

\* create_members was called after a listing of at least two accounts, the
\* master among them.
C8_Witness ==
    \E i \in DOMAIN calls :
        /\ calls[i].api = "create_members"
        /\ Len(calls[i-1].arg) >= 2
        /\ \E k \in DOMAIN calls[i-1].arg :
              calls[i-1].arg[k].Id = gdmaster_account_number
        /\ Len(calls[i].arg) = Len(calls[i-1].arg) - 1

\* C9: an iteration whose designation call failed goes on, with nothing
\* raised out of enable_gd_master, to invoke enable_gd_member for the same
\* region; every region whose designation call failed and whose iteration
\* is over has had enable_gd_member invoked once.
C9_MemberAfterFailedMaster ==
    /\ (pc = "loop" /\ calls # <<>> /\ calls[2].err # "none")
       => /\ calls[1].api = "enable_gd_master"
          /\ Len(calls) >= 3
          /\ calls[3].api = "enable_gd_member"
          /\ calls[3].region = calls[1].region
    /\ pc \in {"loop", "log", "done"} =>
         \A k \in DOMAIN guardduty_regions :
            (k < idx /\ guardduty_regions[k] \in masterFailed)
            => memberCount[guardduty_regions[k]] = 1

\* An iteration is over in which the designation call failed and
\* enable_gd_member was invoked next.
C9_Witness ==
    /\ pc = "loop"
    /\ Len(calls) >= 3
    /\ calls[2].api = "enable_organization_admin_account"
    /\ calls[2].err = "Exception"
    /\ calls[3].api = "enable_gd_member"

\* C10 (as claimed): when the handler reads the failure records, every
\* region whose designation call failed is in failed_regions.
C10_FailedRegionsRecorded ==
    pc \in {"log", "done"} => masterFailed \subseteq Range(failed_regions)
====
